---- MODULE Spec2Model ----
(***************************************************************************)
(* Option resolution, validation and dispatch of the Pyntel4004 command    *)
(* line (src/pyntel4004/src/cli.py): the commands asm, dis and exe.        *)
(*                                                                         *)
(* Python values are encoded as follows.  A value that may be None is a    *)
(* tuple: None is <<>> and the value v is <<v>>.  A local that has not     *)
(* been assigned yet is Unbound; reading it raises UnboundLocalError.      *)
(* A --type collection is a record [tuple, items]: click hands a tuple,    *)
(* a TOML array is a list, and Python never finds a list equal to a tuple. *)
(* A configuration section is a function from its keys to its values.      *)
(***************************************************************************)
EXTENDS Integers, Sequences, FiniteSets, TLC

VARIABLES
    cmd,          \* the sub-command invoked: "asm", "dis" or "exe"
    argv,         \* the invocation as typed: every option is None or <<value>>
    cfgfile,      \* the file --config names: [status, content]
    input_file,   \* asm: local input_file
    output,       \* asm: local output
    exec,         \* asm: local exec
    quiet,        \* asm, exe: local quiet
    monitor,      \* asm: local monitor
    type_type,    \* asm: local type_type
    object_file,  \* dis, exe: local object_file
    inst,         \* dis: local inst
    labels,       \* dis: local labels
    loaded,       \* get_config has been called
    result,       \* asm: what assemble returned
    did_execute,  \* asm: what execute returned
    calls,        \* the calls made to the collaborators, in order
    err,          \* the exception that ended the command, or "none"
    pc            \* position inside the command function

vars == <<cmd, argv, cfgfile, input_file, output, exec, quiet, monitor,
          type_type, object_file, inst, labels, loaded, result, did_execute,
          calls, err, pc>>

----------------------------------------------------------------------------
(* Bounds of the model *)

\* longest --type collection on the command line
MaxTypes == 2

\* longest token collection handed to check_type on its own
MaxLen == 3

----------------------------------------------------------------------------
(* Python values *)

None == <<>>

Some(v) == <<v>>

Val(o) == o[1]

Unbound == <<"unbound", "local">>

\* Python truth value of None / True / False
Truthy(o) == o = Some(TRUE)

Tuple(items) == [tuple |-> TRUE, items |-> items]

List(items) == [tuple |-> FALSE, items |-> items]

\* click's default for --type: default=['None'] with multiple=True
TypeDefault == Tuple(<<"None">>)

\* click's default for --output
OutputDefault == "default"

MinInst == 1

MaxInst == 4096

DefaultInst == 4096

\* str.upper on the tokens of the model
Upper(s) ==
    CASE s = "all" -> "ALL"
      [] s = "obj" -> "OBJ"
      [] s = "h" -> "H"
      [] s = "bin" -> "BIN"
      [] s = "None" -> "NONE"
      [] s = "xyz" -> "XYZ"
      [] OTHER -> s

Has(configuration, key) == key \in DOMAIN configuration

----------------------------------------------------------------------------
(* The check_* helpers, lines 44-138 *)

check_quiet(q, configuration) ==
    IF q = None
    THEN IF Has(configuration, "quiet")
         THEN Some(configuration["quiet"])
         ELSE Some(FALSE)
    ELSE Some(TRUE)

check_exec(x, configuration) ==
    IF x = None
    THEN IF Has(configuration, "exec")
         THEN Some(configuration["exec"])
         ELSE Some(FALSE)
    ELSE Some(TRUE)

check_monitor(m, configuration) ==
    IF m = None
    THEN IF Has(configuration, "monitor")
         THEN Some(configuration["monitor"])
         ELSE Some(FALSE)
    ELSE Some(TRUE)

check_inst(i) ==
    IF i = None
    THEN [err |-> "none", inst |-> Some(DefaultInst)]
    ELSE IF Val(i) < MinInst \/ Val(i) > MaxInst
         THEN [err |-> "InstRange", inst |-> i]
         ELSE [err |-> "none", inst |-> i]

check_dis_content(configuration, object, i, l) ==
    IF Has(configuration, "object") /\ object = None
    THEN LET of == Some(configuration["object"])
             i2 == IF Has(configuration, "inst") /\ i = None
                   THEN Some(configuration["inst"])
                   ELSE i
             l2 == IF l = FALSE /\ Has(configuration, "labels")
                   THEN configuration["labels"]
                   ELSE TRUE
         IN  IF of = None
             THEN [err |-> "NoObject", object_file |-> Unbound,
                   inst |-> i, labels |-> l]
             ELSE [err |-> "none", object_file |-> of,
                   inst |-> i2, labels |-> l2]
    ELSE \* line 99 reads object_file, which was never assigned
         [err |-> "UnboundLocalError", object_file |-> Unbound,
          inst |-> i, labels |-> l]

check_asm_content(configuration, inp, out, tt) ==
    LET inp2 == IF Has(configuration, "input") /\ inp = None
                THEN Some(configuration["input"])
                ELSE inp
        out2 == IF Has(configuration, "output") /\ out = OutputDefault
                THEN configuration["output"]
                ELSE out
        tt2 == IF Has(configuration, "type") /\ tt = TypeDefault
               THEN configuration["type"]
               ELSE tt
    IN  [err |-> IF inp2 = None /\ out2 = OutputDefault /\ tt2 = TypeDefault
                 THEN "EmptySection"
                 ELSE "none",
         input_file |-> inp2, output |-> out2, type_type |-> tt2]

ValidTypes == {"ALL", "OBJ", "H", "BIN"}

\* check_type comparing the tokens as typed, without upper()
check_type_case_sensitive(tt) ==
    LET items == tt.items
        all_found == \E n \in 1..Len(items) : items[n] = "ALL"
        good == \A n \in 1..Len(items) : items[n] \in ValidTypes
        others == ~ \E n \in 1..Len(items) : items[n] \in {"OBJ", "H", "BIN"}
    IN  IF ~good
        THEN "InvalidType"
        ELSE IF all_found /\ ~others
             THEN "AllWithOthers"
             ELSE "none"

check_type(tt) ==
    LET items == tt.items
        all_found == \E n \in 1..Len(items) : Upper(items[n]) = "ALL"
        good == \A n \in 1..Len(items) : Upper(items[n]) \in ValidTypes
        others == ~ \E n \in 1..Len(items) :
                        Upper(items[n]) \in {"OBJ", "H", "BIN"}
    IN  IF ~good
        THEN "InvalidType"
        ELSE IF all_found /\ ~others
             THEN "AllWithOthers"
             ELSE "none"

\* get_config, lines 164-198
get_config(file) ==
    CASE file.status = "missing" -> [err |-> "ConfigFileNotFound", configuration |-> <<>>]
      [] file.status = "denied" -> [err |-> "PermissionError", configuration |-> <<>>]
      [] file.status = "bad" -> [err |-> "BadFormat", configuration |-> <<>>]
      [] OTHER -> [err |-> "none", configuration |-> file.content]

----------------------------------------------------------------------------
(* The invocations and configuration files the model explores *)

Opt(S) == {None} \cup {Some(v) : v \in S}

Flag == {None, Some(TRUE)}

\* a section either lacks the key or maps it to one of the values
Key(k, S) == {<<>>} \cup {k :> v : v \in S}

CliTokens == {"OBJ", "all", "xyz"}

SeqsUpTo(S, n) == UNION {[1..m -> S] : m \in 0..n}

CliTypes == SeqsUpTo(CliTokens, MaxTypes) \ {<<>>}

CfgTypes == {List(<<"H">>), List(<<"ALL", "bin">>)}

InstValues == {0, 1, 4096, 4097}

AsmSections ==
    {i @@ o @@ t @@ x @@ q @@ m :
        i \in Key("input", {"c.asm"}), o \in Key("output", {"cout"}),
        t \in Key("type", CfgTypes), x \in Key("exec", BOOLEAN),
        q \in Key("quiet", BOOLEAN), m \in Key("monitor", BOOLEAN)}

DisSections ==
    {o @@ i @@ l :
        o \in Key("object", {"c.bin"}), i \in Key("inst", InstValues),
        l \in Key("labels", BOOLEAN)}

ExeSections ==
    {o @@ q : o \in Key("object", {"c.bin"}), q \in Key("quiet", BOOLEAN)}

NoFile == [status |-> "absent", content |-> <<>>]

\* the files --config can name: unusable ones, one without the command's
\* section, and one for every section
Files(name, sections) ==
    {[status |-> s, content |-> <<>>] : s \in {"missing", "denied", "bad"}}
    \cup {[status |-> "ok", content |-> <<>>]}
    \cup {[status |-> "ok", content |-> name :> sec] : sec \in sections}

NoArgs ==
    [input |-> None, output |-> None, exec |-> None, quiet |-> None,
     monitor |-> None, type |-> None, object |-> None, inst |-> None,
     labels |-> None, config |-> None]

AsmArgs ==
    {[NoArgs EXCEPT !.input = i, !.output = o, !.exec = x, !.quiet = q,
                    !.monitor = m, !.type = t, !.config = c] :
        i \in Opt({"a.asm"}), o \in Opt({"default", "out"}), x \in Flag,
        q \in Flag, m \in Flag, t \in Opt(CliTypes), c \in Opt({"cfg.toml"})}

DisArgs ==
    {[NoArgs EXCEPT !.object = o, !.inst = i, !.labels = l, !.config = c] :
        o \in Opt({"rom.bin"}), i \in Opt(InstValues), l \in Flag,
        c \in Opt({"cfg.toml"})}

ExeArgs ==
    {[NoArgs EXCEPT !.object = o, !.quiet = q, !.config = c] :
        o \in Opt({"rom.bin"}), q \in Flag, c \in Opt({"cfg.toml"})}

----------------------------------------------------------------------------
(* What click hands to the command functions, lines 256-275, 324-338, 361-370 *)

\* an option with a default: the default when the option is not given
ClickDefault(o, default) == IF o = None THEN default ELSE Val(o)

\* is_flag=True without default=None: False when the flag is not given
ClickFlag(o) == IF o = None THEN Some(FALSE) ELSE Some(TRUE)

\* multiple=True, default=['None']
ClickType(o) == IF o = None THEN TypeDefault ELSE Tuple(Val(o))

Entry ==
    /\ loaded = FALSE
    /\ result = FALSE
    /\ did_execute = FALSE
    /\ calls = <<>>
    /\ err = "none"
    /\ pc = "start"
    /\ object_file = Unbound

InitFile(name, sections) ==
    IF argv.config = None THEN cfgfile = NoFile
    ELSE cfgfile \in Files(name, sections)

InitAsm ==
    /\ cmd = "asm"
    /\ argv \in AsmArgs
    /\ InitFile("asm", AsmSections)
    /\ input_file = argv.input
    /\ output = ClickDefault(argv.output, OutputDefault)
    /\ exec = argv.exec
    /\ quiet = argv.quiet
    /\ monitor = argv.monitor
    /\ type_type = ClickType(argv.type)
    /\ inst = None
    /\ labels = FALSE
    /\ Entry

InitDis ==
    /\ cmd = "dis"
    /\ argv \in DisArgs
    /\ InitFile("dis", DisSections)
    /\ input_file = None
    /\ output = OutputDefault
    /\ exec = None
    /\ quiet = None
    /\ monitor = None
    /\ type_type = TypeDefault
    /\ inst = argv.inst
    /\ labels = (argv.labels # None)
    /\ Entry

InitExe ==
    /\ cmd = "exe"
    /\ argv \in ExeArgs
    /\ InitFile("exe", ExeSections)
    /\ input_file = None
    /\ output = OutputDefault
    /\ exec = None
    /\ quiet = ClickFlag(argv.quiet)
    /\ monitor = None
    /\ type_type = TypeDefault
    /\ inst = None
    /\ labels = FALSE
    /\ Entry

Init == InitAsm \/ InitDis \/ InitExe

----------------------------------------------------------------------------
(* Calls to the collaborators *)

Call(fn, args) == [fn |-> fn, args |-> args]

\* str(type_type): the repr of a tuple differs from the repr of a list
Str(tt) == <<IF tt.tuple THEN "tuple" ELSE "list", tt.items>>

PrintMessages(q, kind) == Call("print_messages", <<q, kind>>)

----------------------------------------------------------------------------
(* asm, lines 275-321 *)

\* lines 283-298: the record of locals after resolution, or the error
asm_resolve(installed) ==
    LET same == [err |-> "none", loaded |-> FALSE, input_file |-> input_file,
                 output |-> output, type_type |-> type_type, exec |-> exec,
                 monitor |-> monitor, quiet |-> quiet]
        g == get_config(cfgfile)
        sec == g.configuration["asm"]
        c == check_asm_content(sec, input_file, output, type_type)
    IN  IF ~installed THEN [same EXCEPT !.err = "CoreNotInstalled"]
        ELSE IF argv.config = None THEN same
        ELSE IF g.err # "none" THEN [same EXCEPT !.err = g.err, !.loaded = TRUE]
        ELSE IF ~Has(g.configuration, "asm")
             THEN [same EXCEPT !.err = "NoSection", !.loaded = TRUE]
        ELSE IF c.err # "none"
             THEN [same EXCEPT !.err = c.err, !.loaded = TRUE]
        ELSE [err |-> "none", loaded |-> TRUE, input_file |-> c.input_file,
              output |-> c.output, type_type |-> c.type_type,
              exec |-> check_exec(exec, sec),
              monitor |-> check_monitor(monitor, sec),
              quiet |-> check_quiet(quiet, sec)]

AsmResolve ==
    /\ pc = "start"
    /\ cmd = "asm"
    /\ \E installed \in BOOLEAN :
        LET r == asm_resolve(installed)
        IN  /\ loaded' = r.loaded
            /\ input_file' = r.input_file
            /\ output' = r.output
            /\ type_type' = r.type_type
            /\ exec' = r.exec
            /\ monitor' = r.monitor
            /\ quiet' = r.quiet
            /\ err' = r.err
            /\ pc' = IF r.err = "none" THEN "resolved" ELSE "done"
    /\ UNCHANGED <<cmd, argv, cfgfile, object_file, inst, labels, result,
                   did_execute, calls>>

\* asm_validate without the quiet/monitor test of line 304
asm_validate_no_clash(q, m, tt) ==
    IF tt = TypeDefault THEN "NoType"
    ELSE check_type(tt)

\* asm_validate with the quiet/monitor test moved after the --type checks
asm_validate_clash_last(q, m, tt) ==
    IF tt = TypeDefault THEN "NoType"
    ELSE IF check_type(tt) # "none" THEN check_type(tt)
    ELSE IF Truthy(q) /\ Truthy(m) THEN "QuietMonitor"
    ELSE "none"

\* lines 304-312: the first check that fails, or "none"
asm_validate(q, m, tt) ==
    IF Truthy(q) /\ Truthy(m) THEN "QuietMonitor"
    ELSE IF tt = TypeDefault THEN "NoType"
    ELSE check_type(tt)

AsmValidate ==
    /\ pc = "resolved"
    /\ cmd = "asm"
    /\ err' = asm_validate(quiet, monitor, type_type)
    /\ pc' = IF err' = "none" THEN "validated" ELSE "done"
    /\ UNCHANGED <<cmd, argv, cfgfile, input_file, output, exec, quiet,
                   monitor, type_type, object_file, inst, labels, loaded,
                   result, did_execute, calls>>

\* line 313, and the test of line 314
AsmAssemble ==
    /\ pc = "validated"
    /\ cmd = "asm"
    /\ \E r \in BOOLEAN :
        /\ result' = r
        /\ pc' = IF r /\ Truthy(exec) THEN "exec" ELSE "done"
    /\ calls' = Append(calls, Call("assemble",
                    <<input_file, output, quiet, Str(type_type)>>))
    /\ UNCHANGED <<cmd, argv, cfgfile, input_file, output, exec, quiet,
                   monitor, type_type, object_file, inst, labels, loaded,
                   did_execute, err>>

\* the messages of line 315, in order
exec_messages(q) == <<PrintMessages(q, "EXEC")>>

\* summary_messages with a blank line also between accumulator and carry
summary_messages_extra_blank(q) ==
    <<PrintMessages(q, "BLANK"), PrintMessages(q, "ACC"),
      PrintMessages(q, "BLANK"), PrintMessages(q, "CARRY"),
      PrintMessages(q, "BLANK")>>

\* the messages of lines 318-321, in order
summary_messages(q) ==
    <<PrintMessages(q, "BLANK"), PrintMessages(q, "ACC"),
      PrintMessages(q, "CARRY"), PrintMessages(q, "BLANK")>>

\* lines 315-317
AsmExecute ==
    /\ pc = "exec"
    /\ cmd = "asm"
    /\ \E d \in BOOLEAN :
        /\ did_execute' = d
        /\ pc' = IF d THEN "summary" ELSE "done"
    /\ calls' = calls \o exec_messages(quiet)
                      \o <<Call("execute", <<"rom", 0, monitor, quiet>>)>>
    /\ UNCHANGED <<cmd, argv, cfgfile, input_file, output, exec, quiet,
                   monitor, type_type, object_file, inst, labels, loaded,
                   result, err>>

\* lines 318-321
AsmSummary ==
    /\ pc = "summary"
    /\ cmd = "asm"
    /\ calls' = calls \o summary_messages(quiet)
    /\ pc' = "done"
    /\ UNCHANGED <<cmd, argv, cfgfile, input_file, output, exec, quiet,
                   monitor, type_type, object_file, inst, labels, loaded,
                   result, did_execute, err>>

----------------------------------------------------------------------------
(* dis, lines 338-358 *)

\* lines 342-353: the record of locals after resolution, or the error
dis_resolve(installed) ==
    LET same == [err |-> "none", loaded |-> FALSE, object_file |-> Unbound,
                 inst |-> inst, labels |-> labels]
        g == get_config(cfgfile)
        c == check_dis_content(g.configuration["dis"], argv.object, inst,
                               labels)
    IN  IF ~installed THEN [same EXCEPT !.err = "CoreNotInstalled"]
        ELSE IF argv.config = None
             THEN [same EXCEPT !.object_file = argv.object]
        ELSE IF g.err # "none"
             THEN [same EXCEPT !.err = g.err, !.loaded = TRUE,
                               !.object_file = argv.object]
        ELSE IF ~Has(g.configuration, "dis")
             THEN [same EXCEPT !.err = "NoSection", !.loaded = TRUE,
                               !.object_file = argv.object]
        ELSE IF c.err # "none"
             THEN [same EXCEPT !.err = c.err, !.loaded = TRUE,
                               !.object_file = argv.object]
        ELSE [err |-> "none", loaded |-> TRUE, object_file |-> c.object_file,
              inst |-> c.inst, labels |-> c.labels]

DisResolve ==
    /\ pc = "start"
    /\ cmd = "dis"
    /\ \E installed \in BOOLEAN :
        LET r == dis_resolve(installed)
        IN  /\ loaded' = r.loaded
            /\ object_file' = r.object_file
            /\ inst' = r.inst
            /\ labels' = r.labels
            /\ err' = r.err
            /\ pc' = IF r.err = "none" THEN "resolved" ELSE "done"
    /\ UNCHANGED <<cmd, argv, cfgfile, input_file, output, exec, quiet,
                   monitor, type_type, result, did_execute, calls>>

\* line 354
DisValidate ==
    /\ pc = "resolved"
    /\ cmd = "dis"
    /\ LET c == check_inst(inst)
       IN  /\ inst' = c.inst
           /\ err' = c.err
           /\ pc' = IF c.err = "none" THEN "validated" ELSE "done"
    /\ UNCHANGED <<cmd, argv, cfgfile, input_file, output, exec, quiet,
                   monitor, type_type, object_file, labels, loaded, result,
                   did_execute, calls>>

\* lines 356-358
DisDispatch ==
    /\ pc = "validated"
    /\ cmd = "dis"
    /\ calls' = calls \o <<Call("retrieve", <<object_file, Some(FALSE)>>),
                           Call("disassemble", <<0, inst, labels>>)>>
    /\ pc' = "done"
    /\ UNCHANGED <<cmd, argv, cfgfile, input_file, output, exec, quiet,
                   monitor, type_type, object_file, inst, labels, loaded,
                   result, did_execute, err>>

----------------------------------------------------------------------------
(* exe, lines 370-393 *)

\* lines 374-387: the record of locals after resolution, or the error
exe_resolve(installed) ==
    LET same == [err |-> "none", loaded |-> FALSE, object_file |-> Unbound,
                 quiet |-> quiet]
        g == get_config(cfgfile)
        sec == g.configuration["exe"]
    IN  IF ~installed THEN [same EXCEPT !.err = "CoreNotInstalled"]
        ELSE IF argv.config = None THEN same
        ELSE IF g.err # "none" THEN [same EXCEPT !.err = g.err, !.loaded = TRUE]
        ELSE IF ~Has(g.configuration, "exe")
             THEN [same EXCEPT !.err = "NoSection", !.loaded = TRUE,
                               !.object_file = argv.object]
        ELSE [err |-> "none", loaded |-> TRUE,
              object_file |-> IF Has(sec, "object") /\ argv.object = None
                              THEN Some(sec["object"])
                              ELSE argv.object,
              quiet |-> check_quiet(quiet, sec)]

ExeResolve ==
    /\ pc = "start"
    /\ cmd = "exe"
    /\ \E installed \in BOOLEAN :
        LET r == exe_resolve(installed)
        IN  /\ loaded' = r.loaded
            /\ object_file' = r.object_file
            /\ quiet' = r.quiet
            /\ err' = r.err
            /\ pc' = IF r.err = "none" THEN "resolved" ELSE "done"
    /\ UNCHANGED <<cmd, argv, cfgfile, input_file, output, exec, monitor,
                   type_type, inst, labels, result, did_execute, calls>>

\* lines 390-393: the calls made, or the error of reading object_file
\* before any assignment
exe_dispatch(of, q) ==
    IF of = Unbound
    THEN [err |-> "UnboundLocalError", calls |-> <<>>]
    ELSE [err |-> "none",
          calls |-> <<Call("retrieve", <<of, q>>),
                      Call("execute", <<"memory_space", 0, Some(FALSE), q>>)>>]

ExeDispatch ==
    /\ pc = "resolved"
    /\ cmd = "exe"
    /\ LET d == exe_dispatch(object_file, quiet)
       IN  /\ calls' = calls \o d.calls
           /\ err' = d.err
    /\ pc' = "done"
    /\ UNCHANGED <<cmd, argv, cfgfile, input_file, output, exec, quiet,
                   monitor, type_type, object_file, inst, labels, loaded,
                   result, did_execute>>

----------------------------------------------------------------------------

Next ==
    \/ AsmResolve
    \/ AsmValidate
    \/ AsmAssemble
    \/ AsmExecute
    \/ AsmSummary
    \/ DisResolve
    \/ DisValidate
    \/ DisDispatch
    \/ ExeResolve
    \/ ExeDispatch

Spec == Init /\ [][Next]_vars

----------------------------------------------------------------------------
(* check_type on its own, over every token collection up to MaxLen *)

TypeTokens ==
    {"ALL", "all", "OBJ", "obj", "H", "h", "BIN", "bin", "xyz", "None"}

InitType ==
    /\ cmd = "check_type"
    /\ argv = NoArgs
    /\ cfgfile = NoFile
    /\ input_file = None
    /\ output = OutputDefault
    /\ exec = None
    /\ quiet = None
    /\ monitor = None
    /\ \E s \in SeqsUpTo(TypeTokens, MaxLen) : type_type \in {Tuple(s), List(s)}
    /\ inst = None
    /\ labels = FALSE
    /\ Entry

CheckType ==
    /\ pc = "start"
    /\ cmd = "check_type"
    /\ err' = check_type(type_type)
    /\ pc' = "done"
    /\ UNCHANGED <<cmd, argv, cfgfile, input_file, output, exec, quiet,
                   monitor, type_type, object_file, inst, labels, loaded,
                   result, did_execute, calls>>

NextType == CheckType

SpecType == InitType /\ [][NextType]_vars

----------------------------------------------------------------------------
(* Vocabulary of the properties *)

Called(fn) == \E n \in 1..Len(calls) : calls[n].fn = fn

CallsOf(fn) == SelectSeq(calls, LAMBDA c : c.fn = fn)

\* the k-th argument of the first call of fn
Arg(fn, k) == CallsOf(fn)[1].args[k]

\* the functions called, in order
Order == [n \in 1..Len(calls) |-> calls[n].fn]

\* the command found its section in a readable, well-formed file
SectionOK ==
    /\ argv.config # None
    /\ cfgfile.status = "ok"
    /\ Has(cfgfile.content, cmd)

\* the section of the command; empty when no configuration is given
Section == IF SectionOK THEN cfgfile.content[cmd] ELSE <<>>

\* the invocation is one the precedence rule applies to: no configuration,
\* or a configuration that has the command's section
Mergeable == argv.config = None \/ SectionOK

\* explicit value, else section value, else default
Precedence(explicit, key, default) ==
    IF explicit # None THEN Val(explicit)
    ELSE IF Has(Section, key) THEN Section[key]
    ELSE default

\* the command ran to its end with the emulation core installed
Ended == pc = "done" /\ err # "CoreNotInstalled"

Finished == Ended /\ err = "none"

----------------------------------------------------------------------------
(* C1: an option the invocation sets reaches the collaborator with the     *)
(* invocation's value, whatever the configuration section holds.           *)

C1_AsmExplicit ==
    (cmd = "asm" /\ Called("assemble")) =>
        /\ argv.input # None => Arg("assemble", 1) = argv.input
        /\ argv.output # None => Arg("assemble", 2) = Val(argv.output)
        /\ argv.quiet # None => Arg("assemble", 3) = Some(TRUE)
        /\ argv.type # None => Arg("assemble", 4) = Str(Tuple(Val(argv.type)))

C1_ObjectExplicit ==
    (cmd \in {"dis", "exe"} /\ Ended /\ Mergeable /\ argv.object # None
        /\ err # "InstRange") =>
        /\ Called("retrieve")
        /\ Arg("retrieve", 1) = argv.object

C1_ExplicitWins == C1_AsmExplicit /\ C1_ObjectExplicit

----------------------------------------------------------------------------
(* C2: an option the invocation leaves unset and the section contains      *)
(* reaches the collaborator with the section's value; exe takes            *)
(* quiet=false from the section, dis takes inst and labels from the        *)
(* section wherever the object path came from.                             *)

C2_ExeQuiet ==
    (cmd = "exe" /\ Called("execute") /\ argv.quiet = None
        /\ Has(Section, "quiet")) =>
        Arg("execute", 4) = Some(Section["quiet"])

C2_DisSection ==
    (cmd = "dis" /\ Ended /\ SectionOK
        /\ Precedence(argv.object, "object", "") # ""
        /\ Precedence(argv.inst, "inst", DefaultInst) \in MinInst..MaxInst) =>
        /\ Called("disassemble")
        /\ (argv.inst = None /\ Has(Section, "inst")) =>
                Arg("disassemble", 2) = Some(Section["inst"])
        /\ (argv.labels = None /\ Has(Section, "labels")) =>
                Arg("disassemble", 3) = Section["labels"]

C2_AsmSection ==
    (cmd = "asm" /\ Called("assemble")) =>
        /\ (argv.input = None /\ Has(Section, "input")) =>
                Arg("assemble", 1) = Some(Section["input"])
        /\ (argv.output = None /\ Has(Section, "output")) =>
                Arg("assemble", 2) = Section["output"]
        /\ (argv.quiet = None /\ Has(Section, "quiet")) =>
                Arg("assemble", 3) = Some(Section["quiet"])
        /\ (argv.type = None /\ Has(Section, "type")) =>
                Arg("assemble", 4) = Str(Section["type"])

C2_SectionFillsUnset == C2_ExeQuiet /\ C2_DisSection /\ C2_AsmSection

----------------------------------------------------------------------------
(* C3: an option set neither by the invocation nor by the section reaches  *)
(* the collaborator with its documented default, with and without a        *)
(* configuration file.  For the asm flags None counts as false.            *)

C3_ExeDefault ==
    (cmd = "exe" /\ Called("execute") /\ argv.quiet = None
        /\ ~Has(Section, "quiet")) =>
        Arg("execute", 4) = Some(FALSE)

C3_DisDefault ==
    (cmd = "dis" /\ Called("disassemble")) =>
        /\ (argv.inst = None /\ ~Has(Section, "inst")) =>
                Arg("disassemble", 2) = Some(DefaultInst)
        /\ (argv.labels = None /\ ~Has(Section, "labels")) =>
                Arg("disassemble", 3) = FALSE

C3_AsmDefault ==
    (cmd = "asm" /\ Called("assemble")) =>
        /\ (argv.output = None /\ ~Has(Section, "output")) =>
                Arg("assemble", 2) = OutputDefault
        /\ (argv.quiet = None /\ ~Has(Section, "quiet")) =>
                ~Truthy(Arg("assemble", 3))
        /\ (argv.exec = None /\ ~Has(Section, "exec")) => ~Called("execute")
        /\ (Called("execute") /\ argv.monitor = None
                /\ ~Has(Section, "monitor")) => ~Truthy(Arg("execute", 3))

C3_DefaultWhenUnset == C3_ExeDefault /\ C3_DisDefault /\ C3_AsmDefault

----------------------------------------------------------------------------
(* C4: a dis invocation whose object path is neither on the command line   *)
(* nor in the dis section ends in "no object file specified" and calls     *)
(* neither retrieve nor disassemble.                                       *)

C4_NoObjectIsError ==
    (cmd = "dis" /\ Ended /\ Mergeable /\ argv.object = None
        /\ ~Has(Section, "object")) =>
        /\ err = "NoObject"
        /\ ~Called("retrieve")
        /\ ~Called("disassemble")

----------------------------------------------------------------------------
(* C5: exe with an explicit object path and no configuration path loads    *)
(* no configuration, calls retrieve with that path and then execute, and   *)
(* ends without error.                                                     *)

C5_ExeWithoutConfig ==
    (cmd = "exe" /\ Ended /\ argv.object # None /\ argv.config = None) =>
        /\ ~loaded
        /\ err = "none"
        /\ Order = <<"retrieve", "execute">>
        /\ Arg("retrieve", 1) = argv.object

----------------------------------------------------------------------------
(* C6: an asm invocation whose quiet and monitor flags both resolve to     *)
(* true, from the command line or from the asm section, fails and calls    *)
(* neither assemble nor execute.                                           *)

QuietByPrecedence == Precedence(argv.quiet, "quiet", FALSE)

MonitorByPrecedence == Precedence(argv.monitor, "monitor", FALSE)

C6_QuietMonitorExclusive ==
    (cmd = "asm" /\ QuietByPrecedence /\ MonitorByPrecedence) =>
        /\ ~Called("assemble")
        /\ ~Called("execute")
        /\ pc \in {"start", "resolved", "done"}
        /\ pc = "done" => err # "none"

\* quiet from the section, monitor from the command line, the rest valid
C6_Witness ==
    /\ cmd = "asm"
    /\ pc = "done"
    /\ err = "QuietMonitor"
    /\ argv.quiet = None
    /\ Has(Section, "quiet")
    /\ argv.monitor # None
    /\ argv.input # None
    /\ argv.type = Some(<<"OBJ">>)

----------------------------------------------------------------------------
(* C7: for asm with execute-after set and quiet false the messages are     *)
(* blank, execute banner, blank, accumulator, carry, blank, in this order; *)
(* with quiet true no message is emitted.                                  *)

Messages == CallsOf("print_messages")

\* the kinds of the messages print_messages is asked for
Kinds == [n \in 1..Len(Messages) |-> Messages[n].args[2]]

\* the kinds of the messages asked for with quiet off
Emitted ==
    LET loud == SelectSeq(Messages, LAMBDA c : ~Truthy(c.args[1]))
    IN  [n \in 1..Len(loud) |-> loud[n].args[2]]

C7_SummaryAsSpecified ==
    (cmd = "asm" /\ pc = "done" /\ Called("execute")) =>
        Emitted = IF Truthy(quiet) THEN <<>>
                  ELSE <<"BLANK", "EXEC", "BLANK", "ACC", "CARRY", "BLANK">>

(* C7 as amended: the execute banner is asked for before execute is        *)
(* called and, only when execute reports success, blank, accumulator,      *)
(* carry, blank after it; every message carries the resolved quiet flag,   *)
(* so that nothing is emitted with quiet true.                             *)
C7_SummaryAsCoded ==
    (cmd = "asm" /\ pc = "done") =>
        /\ ~Called("execute") => Order \in {<<>>, <<"assemble">>}
        /\ Called("execute") =>
            /\ Kinds = IF did_execute
                       THEN <<"EXEC", "BLANK", "ACC", "CARRY", "BLANK">>
                       ELSE <<"EXEC">>
            /\ SubSeq(Order, 1, 3) = <<"assemble", "print_messages", "execute">>
            /\ \A n \in 4..Len(Order) : Order[n] = "print_messages"
            /\ \A n \in 1..Len(Messages) :
                    Truthy(Messages[n].args[1]) = Truthy(Arg("assemble", 3))
            /\ Emitted = IF Truthy(quiet) THEN <<>> ELSE Kinds

C7_Witness ==
    /\ cmd = "asm"
    /\ pc = "done"
    /\ did_execute
    /\ ~Truthy(quiet)
    /\ Len(Emitted) = 5

----------------------------------------------------------------------------
(* C8: an instruction count outside 1..4096, from --inst or from the dis   *)
(* section, ends dis in the range error before any collaborator is called. *)

InstByPrecedence == Precedence(argv.inst, "inst", DefaultInst)

C8_OutOfRangeIsRangeError ==
    (cmd = "dis" /\ Ended /\ Mergeable
        /\ Precedence(argv.object, "object", "") # ""
        /\ InstByPrecedence \notin MinInst..MaxInst) =>
        /\ err = "InstRange"
        /\ calls = <<>>

----------------------------------------------------------------------------
(* C9: check_type accepts a collection exactly when every token is one of  *)
(* ALL, OBJ, H, BIN in any case and ALL does not come with OBJ, H or BIN;  *)
(* an unknown token gives the invalid-type error, and otherwise ALL with   *)
(* OBJ, H or BIN gives the ALL-is-exclusive error.                         *)

AllForms == {"ALL", "all"}

OtherForms == {"OBJ", "obj", "H", "h", "BIN", "bin"}

Tokens == {type_type.items[n] : n \in 1..Len(type_type.items)}

C9_CheckType ==
    (cmd = "check_type" /\ pc = "done") =>
        /\ err = "none" <=>
            /\ Tokens \subseteq AllForms \cup OtherForms
            /\ Tokens \cap AllForms # {} => Tokens \cap OtherForms = {}
        /\ ~(Tokens \subseteq AllForms \cup OtherForms) => err = "InvalidType"
        /\ (/\ Tokens \subseteq AllForms \cup OtherForms
            /\ Tokens \cap AllForms # {}
            /\ Tokens \cap OtherForms # {}) => err = "AllWithOthers"

C9_Witness ==
    /\ cmd = "check_type"
    /\ pc = "done"
    /\ err = "AllWithOthers"
    /\ "all" \in Tokens
    /\ "h" \in Tokens

----------------------------------------------------------------------------
(* C10: in asm the missing-output-type error is reported in preference to  *)
(* the invalid or ALL-combined token error, and either of those in         *)
(* preference to the quiet/monitor error.                                  *)

ValidationErrors == {"QuietMonitor", "NoType", "InvalidType", "AllWithOthers"}

\* lines 304-312 were reached
Validated == cmd = "asm" /\ Ended /\ (err = "none" \/ err \in ValidationErrors)

TypeMissing == argv.type = None /\ ~Has(Section, "type")

TypeItems == IF argv.type # None THEN Val(argv.type) ELSE Section["type"].items

TypeTokensGiven == {TypeItems[n] : n \in 1..Len(TypeItems)}

TypeInvalid ==
    /\ ~TypeMissing
    /\ ~(TypeTokensGiven \subseteq AllForms \cup OtherForms)

TypeAllCombined ==
    /\ ~TypeMissing
    /\ TypeTokensGiven \subseteq AllForms \cup OtherForms
    /\ TypeTokensGiven \cap AllForms # {}
    /\ TypeTokensGiven \cap OtherForms # {}

BothQuietAndMonitor == QuietByPrecedence /\ MonitorByPrecedence

C10_PresenceContentCombination ==
    Validated =>
        /\ TypeMissing => err = "NoType"
        /\ TypeInvalid => err = "InvalidType"
        /\ TypeAllCombined => err = "AllWithOthers"

(* C10 as amended: the quiet/monitor error is reported in preference to    *)
(* the missing-output-type error, and that one in preference to the        *)
(* invalid or ALL-combined token error.                                    *)
C10_CombinationPresenceContent ==
    Validated =>
        /\ BothQuietAndMonitor => err = "QuietMonitor"
        /\ (~BothQuietAndMonitor /\ TypeMissing) => err = "NoType"
        /\ (~BothQuietAndMonitor /\ TypeInvalid) => err = "InvalidType"
        /\ (~BothQuietAndMonitor /\ TypeAllCombined) => err = "AllWithOthers"
        /\ err # "none" =>
            BothQuietAndMonitor \/ TypeMissing \/ TypeInvalid \/ TypeAllCombined

\* quiet and monitor both true and no output type at all
C10_Witness ==
    /\ Validated
    /\ BothQuietAndMonitor
    /\ TypeMissing
    /\ err = "QuietMonitor"

====
